---- MODULE Spec2Model ----
(***************************************************************************)
(* Model of the s3verify test cases: the request/verify tasks that every   *)
(* fan-out test case starts as goroutines, the result channel, the loop    *)
(* that receives the results on the caller's goroutine, the package-level  *)
(* fixture registries, the response verifiers and the sequential           *)
(* mainGetObjectIfMatch test.                                              *)
(*                                                                         *)
(* Go slices are modelled as sequences: the Go index i is the index i + 1  *)
(* here.  A goroutine of a test case is the task tasks[k], started with    *)
(* the loop index cur = k - 1.                                             *)
(***************************************************************************)
EXTENDS Integers, Sequences, FiniteSets, TLC

VARIABLES
    test,                  \* the test case that runs
    globalTotalNumTest,    \* capacity given to every result channel
    draws,                 \* the values rand.Intn can return in this run
    objects,               \* var objects             (put-object.go:33)
    copyObjects,           \* var copyObjects         (put-object.go:36)
    multipartObjects,      \* var multipartObjects    (read by the test cases)
    objectParts,           \* var objectParts         (part_000:35)
    complMultipartUploads, \* var complMultipartUploads (part_000:38)
    ch,                    \* errCh / partCh: the buffered results, oldest first
    tasks,                 \* the goroutines started by the running loop
    mpc,                   \* where the test function is
    idx,                   \* loop variable of the dispatch loop
    count,                 \* count of the receive loop
    batch,                 \* mainRemoveObjectExists: <<bucket, list>> being removed
    ret,                   \* what the test function returned
    messages,              \* the printMessage calls, in order
    received,              \* results received by the running receive loop
    recvLog,               \* the err of every result received, in receive order
    regWrites,             \* every registry write: the slot <<index, position in
                           \* Parts>>, the goroutine it is made on (0: the caller)
                           \* and whether the test function had returned (late)
    ifm,                   \* locals of mainGetObjectIfMatch
    GetObjectIfMatchReq,   \* var GetObjectIfMatchReq (get-object-if-match.go:37):
                           \* the address of an http.Request in heap
    heap,                  \* the http.Request values and Header maps that
                           \* NewGetObjectIfMatchReq works on
    vin, vout              \* input and result of one verifier call

vars == <<test, globalTotalNumTest, draws, objects, copyObjects, multipartObjects,
          objectParts, complMultipartUploads, ch, tasks, mpc, idx, count, batch,
          ret, messages, received, recvLog, regWrites, ifm, GetObjectIfMatchReq,
          heap, vin, vout>>

\* The package-level request of get-object-if-match.go and the memory behind it.
shared == <<GetObjectIfMatchReq, heap>>

registries == <<objects, copyObjects, objectParts, complMultipartUploads>>

-----------------------------------------------------------------------------
(* Bounds of the model. *)

\* len(objects); the code allocates 50 slots.
NumObjects == 2
\* len(multipartObjects) ranges over 0..MaxMultipartObjects.
MaxMultipartObjects == 3
\* len(copyObjects).
NumCopyObjects == 1
\* len(validBuckets).
NumBuckets == 2
\* globalTotalNumTest ranges over 1..MaxTotalNumTest.
MaxTotalNumTest == 2

(* Program constants. *)

\* complMultipartUploads is declared with two elements.
NumComplMultipartUploads == 2
\* rand.Intn(1<<20) + 4*1024*1024: the least part length, and the span above it.
MinPartLen == 4194304
PartLenSpan == 1048576

-----------------------------------------------------------------------------
(* Values. *)

Max(a, b) == IF a > b THEN a ELSE b

\* A nil pointer, a nil error.
Nil == [kind |-> "nil", origin |-> 0]

\* An error value: its kind ("construct": the request could not be built,
\* "transport": it could not be executed, "verify": the response was not the
\* expected one; "init", "cleanup" in mainGetObjectIfMatch), and the goroutine it
\* belongs to (0: the caller).
Err(kind, origin) == [kind |-> kind, origin |-> origin]

\* The double quote character of an ETag header value.
Quote == "Q"

\* strconv.Itoa, as the sequence of decimal digits.
RECURSIVE Itoa(_)
Itoa(n) == IF n < 10 THEN <<n>> ELSE Itoa(n \div 10) \o <<n % 10>>

\* strings.TrimPrefix(s, "\"")
TrimPrefix(s) == IF Len(s) > 0 /\ s[1] = Quote THEN Tail(s) ELSE s
\* A trailing quote left where it is.
TrimSuffixNone(s) == s
\* strings.TrimSuffix(s, "\"")
TrimSuffix(s) == IF Len(s) > 0 /\ s[Len(s)] = Quote THEN SubSeq(s, 1, Len(s) - 1) ELSE s

\* Payloads of uploaded objects (byte sequences).
Payloads == {<<1, 2>>, <<2, 1, 2>>}

\* Error codes of an XML error document.
ErrorCodes == {"PreconditionFailed", "AccessDenied"}

\* A response body: plain bytes, or an XML error document with its Code.
Bytes(data) == [xml |-> FALSE, data |-> data, code |-> ""]
XmlError(code) == [xml |-> TRUE, data |-> <<>>, code |-> code]
\* The slice without its last byte: objectBody[a : b].
SliceHalfOpen(body, a, b) == SubSeq(body, a + 1, b)
\* objectBody[a : b+1] of Go, for 0 <= a <= b < len(objectBody).
Slice(body, a, b) == SubSeq(body, a + 1, b + 1)
Slices == {Slice(p, a, b) : <<p, a, b>> \in
             {x \in Payloads \X (0..2) \X (0..2) : x[2] <= x[3] /\ x[3] < Len(x[1])}}
Bodies == {Bytes(<<>>)} \cup {Bytes(p) : p \in Slices} \cup {XmlError(c) : c \in ErrorCodes}

StatusCodes == {200, 204, 206, 304, 412}

\* http.Response.Status for a status code.
StatusText(code) ==
    CASE code = 200 -> "200 OK"
      [] code = 204 -> "204 No Content"
      [] code = 206 -> "206 Partial Content"
      [] code = 304 -> "304 Not Modified"
      [] code = 412 -> "412 Precondition Failed"

\* ETag header values a server sends.
ETagHeaders == {<<Quote, "a", Quote>>, <<"b">>}

\* The responses a server can give: status, headers (std: whether the standard
\* headers are all there), body.
ResponsesWith(etags) ==
    [StatusCode : StatusCodes,
     Header : [std : BOOLEAN, ETag : etags],
     Body : Bodies]
Responses == ResponsesWith(ETagHeaders)
\* The responses to a request whose ETag header the test case does not read.
ResponsesAnyETag == ResponsesWith({<<Quote, "a", Quote>>})

-----------------------------------------------------------------------------
(* Verifiers.  Every verifier runs three checks and returns the first error. *)

\* The first non-nil error of a sequence of check results ("" is nil).
RECURSIVE FirstErr(_)
FirstErr(errs) ==
    IF errs = <<>> THEN ""
    ELSE IF Head(errs) # "" THEN Head(errs)
    ELSE FirstErr(Tail(errs))

verifyStandardHeaders(header) == IF header.std THEN "" ELSE "header"

\* put-object.go
verifyStatusPutObject(respStatusCode, expectedStatusCode) ==
    IF respStatusCode # expectedStatusCode THEN "status" ELSE ""
verifyBodyPutObject(resBody) ==
    IF resBody # Bytes(<<>>) THEN "body" ELSE ""
verifyHeaderPutObject(header) == verifyStandardHeaders(header)
putObjectVerify(res, expectedStatusCode) ==
    FirstErr(<<verifyHeaderPutObject(res.Header),
               verifyStatusPutObject(res.StatusCode, expectedStatusCode),
               verifyBodyPutObject(res.Body)>>)

\* upload part
\* A body check that accepts every body.
verifyBodyUploadPartAny(resBody) == ""
verifyBodyUploadPart(resBody) ==
    IF resBody # Bytes(<<>>) THEN "body" ELSE ""
verifyStatusUploadPart(respStatusCode, expectedStatusCode) ==
    IF respStatusCode # expectedStatusCode THEN "status" ELSE ""
verifyHeaderUploadPart(header) == verifyStandardHeaders(header)
\* uploadPartVerify with the status checked first, then the headers, then the body.
uploadPartVerifyStatusFirst(res, expectedStatusCode) ==
    FirstErr(<<verifyStatusUploadPart(res.StatusCode, expectedStatusCode),
               verifyHeaderUploadPart(res.Header),
               verifyBodyUploadPart(res.Body)>>)
uploadPartVerify(res, expectedStatusCode) ==
    FirstErr(<<verifyBodyUploadPart(res.Body),
               verifyStatusUploadPart(res.StatusCode, expectedStatusCode),
               verifyHeaderUploadPart(res.Header)>>)

\* remove object
verifyHeaderRemoveObject(header) == verifyStandardHeaders(header)
verifyBodyRemoveObject(resBody) ==
    IF resBody # Bytes(<<>>) THEN "body" ELSE ""
\* A status check that accepts every status.
verifyStatusRemoveObjectAny(respStatusCode, expectedStatusCode) == ""
verifyStatusRemoveObject(respStatusCode, expectedStatusCode) ==
    IF respStatusCode # expectedStatusCode THEN "status" ELSE ""
removeObjectVerify(res, expectedStatusCode) ==
    FirstErr(<<verifyHeaderRemoveObject(res.Header),
               verifyBodyRemoveObject(res.Body),
               verifyStatusRemoveObject(res.StatusCode, expectedStatusCode)>>)

\* get object, If-None-Match
verifyHeaderGetObjectIfNoneMatch(header) == verifyStandardHeaders(header)
verifyStatusGetObjectIfNoneMatch(respStatusCode, expectedStatusCode) ==
    IF respStatusCode # expectedStatusCode THEN "status" ELSE ""
verifyBodyGetObjectIfNoneMatch(resBody, expectedBody) ==
    IF resBody # Bytes(expectedBody) THEN "body" ELSE ""
getObjectIfNoneMatchVerify(res, objectBody, expectedStatusCode) ==
    FirstErr(<<verifyHeaderGetObjectIfNoneMatch(res.Header),
               verifyStatusGetObjectIfNoneMatch(res.StatusCode, expectedStatusCode),
               verifyBodyGetObjectIfNoneMatch(res.Body, objectBody)>>)

\* get object, If-Modified-Since
verifyBodyGetObjectIfModifiedSince(resBody, expectedBody) ==
    IF resBody # Bytes(expectedBody) THEN "body" ELSE ""
verifyStatusGetObjectIfModifiedSince(respStatusCode, expectedStatusCode) ==
    IF respStatusCode # expectedStatusCode THEN "status" ELSE ""
verifyHeaderGetObjectIfModifiedSince(header) == verifyStandardHeaders(header)
verifyGetObjectIfModifiedSince(res, expectedBody, expectedStatusCode) ==
    FirstErr(<<verifyHeaderGetObjectIfModifiedSince(res.Header),
               verifyBodyGetObjectIfModifiedSince(res.Body, expectedBody),
               verifyStatusGetObjectIfModifiedSince(res.StatusCode, expectedStatusCode)>>)

\* get object, If-Match
VerifyHeaderGetObjectIfMatch(res) == verifyStandardHeaders(res.Header)
\* A body check that accepts every error document, whatever its Code.
VerifyBodyGetObjectIfMatchAnyCode(res, objectBody, shouldFail) ==
    IF shouldFail
    THEN IF ~res.Body.xml THEN "decode" ELSE ""
    ELSE IF res.Body # Bytes(objectBody) THEN "body" ELSE ""
VerifyBodyGetObjectIfMatch(res, objectBody, shouldFail) ==
    IF shouldFail
    THEN IF ~res.Body.xml THEN "decode"
         ELSE IF res.Body.code # "PreconditionFailed" THEN "body"
         ELSE ""
    ELSE IF res.Body # Bytes(objectBody) THEN "body" ELSE ""
VerifyStatusGetObjectIfMatch(res, expectedStatus) ==
    IF StatusText(res.StatusCode) # expectedStatus THEN "status" ELSE ""
GetObjectIfMatchVerify(res, objectBody, expectedStatus, shouldFail) ==
    FirstErr(<<VerifyHeaderGetObjectIfMatch(res),
               VerifyBodyGetObjectIfMatch(res, objectBody, shouldFail),
               VerifyStatusGetObjectIfMatch(res, expectedStatus)>>)

\* get object (used by the range test): status, headers, body.
getObjectVerify(res, objectBody, expectedStatusCode) ==
    FirstErr(<<IF res.StatusCode # expectedStatusCode THEN "status" ELSE "",
               verifyStandardHeaders(res.Header),
               IF res.Body # Bytes(objectBody) THEN "body" ELSE "">>)

-----------------------------------------------------------------------------
(* Requests.  A builder returns the request it built; the calls it makes that can
   fail (computeHash, makeTargetURL) are the error branch of the caller. *)

\* http.Header, url.Values: a map from names to values.
EmptyMap == [h \in {} |-> <<>>]
\* Header.Set(key, value), Values.Set(key, value), m[key] = value.
Set(header, key, value) ==
    [h \in DOMAIN header \cup {key} |-> IF h = key THEN value ELSE header[h]]

appUserAgent == <<"appUserAgent">>

\* bytes.NewReader(data) for a byte sequence: the bytes and their number.
NewReader(data) == [data |-> data, len |-> Len(data)]
\* make([]byte, n) filled by io.ReadFull(crand.Reader, ...): n random bytes.
RandomBytes(n) == [data |-> <<"random", n>>, len |-> n]

\* computeHash(reader): md5Sum, sha256Sum, contentLength.
computeHash(reader) ==
    [md5Sum |-> <<"md5", reader.data>>, sha256Sum |-> <<"sha256", reader.data>>,
     contentLength |-> reader.len]
\* hex.EncodeToString, base64.StdEncoding.EncodeToString.
HexEncodeToString(sum) == <<"hex">> \o sum
Base64EncodeToString(sum) == <<"base64">> \o sum

\* strconv.FormatInt(n, 10) for n >= 0.
FormatInt(n) == Itoa(n)

\* time.Time: whole seconds since 1 Jan 1970 00:00:00 GMT, and the nanoseconds
\* within the second.
Time(sec, nsec) == [sec |-> sec, nsec |-> nsec]
\* t.Format(http.TimeFormat): the layout has no fraction of a second.
FormatHTTP(t) == <<"http-date", t.sec>>
\* time.Parse(http.TimeFormat, value)
ParseHTTP(value) == Time(value[2], 0)
\* time.Parse(http.TimeFormat, "Thu, 01 Jan 1970 00:00:00 GMT")
pastDate == ParseHTTP(<<"http-date", 0>>)

\* invalidETag := "1234567890"
invalidETag == <<"1234567890">>

\* Request{customHeader: http.Header{}}
Request ==
    [bucketName |-> <<>>, objectName |-> <<>>, queryValues |-> EmptyMap,
     customHeader |-> EmptyMap, contentBody |-> <<>>, contentLength |-> 0]

newPutObjectReq(bucketName, objectName, objectData) ==
    LET reader == NewReader(objectData)
        hash == computeHash(reader)
        h1 == Set(EmptyMap, "Content-MD5", Base64EncodeToString(hash.md5Sum))
        h2 == Set(h1, "X-Amz-Content-Sha256", HexEncodeToString(hash.sha256Sum))
        h3 == Set(h2, "User-Agent", appUserAgent)
    IN [Request EXCEPT !.bucketName = bucketName, !.objectName = objectName,
                       !.customHeader = h3, !.contentLength = hash.contentLength,
                       !.contentBody = reader.data]

newUploadPartReq(bucketName, objectName, uploadID, partNumber, partData) ==
    LET q1 == Set(EmptyMap, "partNumber", Itoa(partNumber))
        urlValues == Set(q1, "uploadId", uploadID)
        hash == computeHash(partData)
        h1 == Set(EmptyMap, "X-Amz-Content-Sha256", HexEncodeToString(hash.sha256Sum))
        h2 == Set(h1, "Content-MD5", Base64EncodeToString(hash.md5Sum))
    IN [Request EXCEPT !.bucketName = bucketName, !.objectName = objectName,
                       !.queryValues = urlValues, !.contentBody = partData.data,
                       !.contentLength = hash.contentLength, !.customHeader = h2]

newRemoveObjectReq(bucketName, objectName) ==
    LET hash == computeHash(NewReader(<<>>))
        h1 == Set(EmptyMap, "User-Agent", appUserAgent)
        h2 == Set(h1, "X-Amz-Content-Sha256", HexEncodeToString(hash.sha256Sum))
    IN [Request EXCEPT !.bucketName = bucketName, !.objectName = objectName,
                       !.customHeader = h2]

newGetObjectIfNoneMatchReq(bucketName, objectName, ETag) ==
    LET hash == computeHash(NewReader(<<>>))
        h1 == Set(EmptyMap, "If-None-Match", ETag)
        h2 == Set(h1, "User-Agent", appUserAgent)
        h3 == Set(h2, "X-Amz-Content-Sha256", HexEncodeToString(hash.sha256Sum))
    IN [Request EXCEPT !.bucketName = bucketName, !.objectName = objectName,
                       !.customHeader = h3]

newGetObjectIfModifiedSinceReq(bucketName, objectName, lastModified) ==
    LET hash == computeHash(NewReader(<<>>))
        h1 == Set(EmptyMap, "X-Amz-Content-Sha256", HexEncodeToString(hash.sha256Sum))
        h2 == Set(h1, "If-Modified-Since", FormatHTTP(lastModified))
        h3 == Set(h2, "User-Agent", appUserAgent)
    IN [Request EXCEPT !.bucketName = bucketName, !.objectName = objectName,
                       !.customHeader = h3]

newGetObjectRangeReq(bucketName, objectName, startRange, endRange) ==
    LET hash == computeHash(NewReader(<<>>))
        h1 == Set(EmptyMap, "Range",
                  <<"bytes=">> \o FormatInt(startRange) \o <<"-">> \o FormatInt(endRange))
        h2 == Set(h1, "User-Agent", appUserAgent)
        h3 == Set(h2, "X-Amz-Content-Sha256", HexEncodeToString(hash.sha256Sum))
    IN [Request EXCEPT !.bucketName = bucketName, !.objectName = objectName,
                       !.customHeader = h3]

\* The memory NewGetObjectIfMatchReq works on: the http.Request values (each with
\* the address of its Header map) and the Header maps.  Address 1 holds the
\* composite literal of the declaration of GetObjectIfMatchReq.
InitialHeap ==
    LET h1 == Set(EmptyMap, "X-Amz-Content-Sha256",
                  HexEncodeToString(<<"sha256", <<>>>>))
        h2 == Set(h1, "If-Match", <<>>)
    IN [requests |-> <<[Method |-> "GET", Header |-> 1, URL |-> <<>>, Body |-> <<>>]>>,
        headers |-> <<h2>>]

\* makeTargetURL(config.Endpoint, bucketName, objectName, config.Region)
makeTargetURL(bucketName, objectName) == <<"url", bucketName, objectName>>

\* signv4.SignV4(req, ...): req is a copy of the request (a copy of an
\* http.Request shares the Header map of the original); the signature goes into
\* its Authorization header and the address of the copy is returned.
SignV4(mem, req) ==
    [requests |-> Append(mem.requests, req),
     headers |-> [mem.headers EXCEPT ![req.Header] =
                     Set(@, "Authorization", <<"signature", req.URL, @["If-Match"]>>)]]

\* NewGetObjectIfMatchReq after makeTargetURL succeeded, called when
\* GetObjectIfMatchReq is the address at and the memory is mem: the memory it
\* leaves.  The address of the last request of that memory is assigned to
\* GetObjectIfMatchReq and returned.
NewGetObjectIfMatchReq(mem, at, bucketName, objectName, ETag) ==
    LET targetURL == makeTargetURL(bucketName, objectName)
        hdr == mem.requests[at].Header
        m1 == [mem EXCEPT !.headers[hdr] = Set(@, "If-Match", ETag)]
        m2 == [m1 EXCEPT !.requests[at].URL = targetURL]
    IN SignV4(m2, m2.requests[at])

\* The request at an address, with the Header map it refers to.
Deref(mem, at) == [mem.requests[at] EXCEPT !.Header = mem.headers[@]]

-----------------------------------------------------------------------------
(* The fixtures and the state at the start of a test case. *)

FanOutTests == {"PutObject", "UploadPart", "GetObjectIfNoneMatch",
                "GetObjectIfModifiedSince", "GetObjectRange", "RemoveObject"}
Tests == FanOutTests \cup {"GetObjectIfMatch"}

\* The key of the first index, whatever the index.
PutKeyOfFirst(cur) == <<"s3verify-put-parallel">> \o Itoa(0)
\* "s3verify-put-parallel" + strconv.Itoa(cur)
PutKey(cur) == <<"s3verify-put-parallel">> \o Itoa(cur)

\* An object as an earlier, completed test case left it in a registry.
FixtureObject(prefix, k) ==
    LET body == IF k % 2 = 1 THEN <<1, 2>> ELSE <<2, 1, 2>> IN
    [Key |-> <<prefix>> \o Itoa(k - 1), Body |-> body, ETag |-> <<"e", k>>,
     Size |-> Len(body), LastModified |-> Time(4 + k, k % 2)]

FixtureMultipart(k) == [Key |-> <<"s3verify-multipart">> \o Itoa(k - 1), UploadID |-> <<"u", k>>]

\* rand.Intn(n) yields some r with 0 <= r < n, here one of the values of draws.
RandIntn(n) == {r \in draws : 0 <= r /\ r < n}

\* Parts one byte longer than the parts of mainUploadPart.
PartLensOneMore == {r + MinPartLen + 1 : r \in RandIntn(PartLenSpan)}
\* The lengths rand.Intn(1<<20) + 4*1024*1024 of the parts.
PartLens == {r + MinPartLen : r \in RandIntn(PartLenSpan)}

\* The ETags the store can have given the first object: an ETag is an opaque
\* token, and the store's choice.
FixtureETags == {<<"e", 1>>, invalidETag}

\* validBuckets[b - 1].Name
BucketName(b) == <<"s3verify-bucket", b>>

IdleIfm == [pc |-> "idle", res |-> <<>>, cleanUps |-> 0, err |-> Nil, errC |-> Nil,
            returned |-> Nil, req |-> 0, badReq |-> 0, got |-> <<>>]

FanOutInit ==
    /\ test \in Tests
    /\ globalTotalNumTest \in 1..MaxTotalNumTest
    /\ \E E \in FixtureETags :
          /\ test # "GetObjectIfNoneMatch" => E = <<"e", 1>>
          /\ objects = IF test = "PutObject"
                       THEN [k \in 1..NumObjects |-> Nil]
                       ELSE [k \in 1..NumObjects |->
                               IF k = 1
                               THEN [FixtureObject("s3verify-put-parallel", k)
                                        EXCEPT !.ETag = E]
                               ELSE FixtureObject("s3verify-put-parallel", k)]
    /\ copyObjects = IF test = "PutObject" THEN <<>>
                     ELSE [k \in 1..NumCopyObjects |-> FixtureObject("s3verify-copy", k)]
    /\ \E m \in 0..MaxMultipartObjects :
          /\ test # "UploadPart" => m = IF test = "PutObject" THEN 0 ELSE 1
          /\ multipartObjects = [k \in 1..m |-> FixtureMultipart(k)]
    /\ objectParts = <<>>
    /\ complMultipartUploads = [k \in 1..NumComplMultipartUploads |-> [Parts |-> <<>>]]
    /\ ch = <<>>
    /\ tasks = <<>>
    /\ mpc = IF test = "GetObjectIfMatch" THEN "init" ELSE "dispatch"
    /\ idx = 0
    /\ count = 0
    /\ batch = [bucket |-> 1, list |-> 1]
    /\ ret = "none"
    /\ messages = <<>>
    /\ received = 0
    /\ recvLog = <<>>
    /\ regWrites = {}
    /\ ifm = IdleIfm
    /\ GetObjectIfMatchReq = 1
    /\ heap = InitialHeap

Init ==
    /\ FanOutInit
    /\ draws = {0}
    /\ vin = Nil
    /\ vout = "unset"

-----------------------------------------------------------------------------
(* Dispatch: one goroutine per element of the list the test case ranges over. *)

\* The list mainRemoveObjectExists is removing: objects, copyObjects, multipartObjects.
RemoveList ==
    CASE batch.list = 1 -> objects
      [] batch.list = 2 -> copyObjects
      [] batch.list = 3 -> multipartObjects

\* The list the dispatch loop of the running test case ranges over.
DispatchList ==
    CASE test = "UploadPart" -> multipartObjects
      [] test = "RemoveObject" -> RemoveList
      [] OTHER -> objects

\* go func(...)(...): the goroutine starts with the loop index and the arguments
\* evaluated at the go statement.
NewTask(cur, arg) ==
    [pc |-> "first", cur |-> cur, arg |-> arg, msg |-> Nil, res |-> <<>>, sent |-> 0,
     etag |-> <<>>, reqs |-> <<>>, got |-> <<>>, range |-> Nil]

Dispatch ==
    /\ test \in FanOutTests
    /\ mpc = "dispatch"
    /\ idx < Len(DispatchList)
    /\ tasks' = Append(tasks, NewTask(idx, IF test = "PutObject" THEN Nil
                                           ELSE DispatchList[idx + 1]))
    /\ idx' = idx + 1
    /\ UNCHANGED <<test, globalTotalNumTest, draws, registries, multipartObjects, ch, mpc,
                   count, batch, ret, messages, received, recvLog, regWrites, ifm, shared,
                   vin, vout>>

\* A receive loop set to receive one result fewer than the list is long.
CountOfButOne(list) == Max(Len(list) - 1, 0)
\* A receive loop set to receive one result more than the list is long.
CountOfOneMore(list) == Len(list) + 1
\* The number of results the receive loop is set to receive.
CountOf(list) == Len(list)

\* count := len(...), after the dispatch loop.
StartAwait ==
    /\ test \in FanOutTests
    /\ mpc = "dispatch"
    /\ idx = Len(DispatchList)
    /\ mpc' = "await"
    /\ count' = CountOf(DispatchList)
    /\ received' = 0
    /\ UNCHANGED <<test, globalTotalNumTest, draws, registries, multipartObjects, ch, tasks,
                   idx, batch, ret, messages, recvLog, regWrites, ifm, shared, vin, vout>>

-----------------------------------------------------------------------------
(* The goroutines. *)

\* closeResponse(res): one more close of the response's body.
closeResponse(closes) == closes + 1

\* The deferred closeResponse calls of a goroutine, run when it returns.
RunDeferred(res) == [j \in DOMAIN res |-> closeResponse(res[j])]

TaskVars == <<test, globalTotalNumTest, draws, copyObjects, multipartObjects, objectParts,
              complMultipartUploads, ch, mpc, idx, count, batch, ret, messages,
              received, recvLog, ifm, shared, vin, vout>>

\* A request handed to the executor again when it was handed to it once.
execRequestAgain(calls, req) == Append(Append(calls, req), req)
\* config.execRequest(method, req): the request joins the calls the goroutine
\* has made of the executor.
execRequest(calls, req) == Append(calls, req)

\* The goroutine goes on to its send with the result msg, holding the responses
\* res, having built the requests reqs and accepted the responses got.
ToSend(k, msg, res, reqs, got) ==
    tasks' = [tasks EXCEPT ![k] = [@ EXCEPT !.pc = "send", !.msg = msg, !.res = res,
                                            !.reqs = reqs, !.got = got]]

\* What a verifier call gives the goroutine: the error it returns ("" is nil),
\* and the response when it is accepted.
Verdict(v, res) == <<v, IF v = "" THEN res ELSE Nil>>

\* Every goroutine writing the slot of the first index.
PutSlotShared(cur) == 1
\* The slot of objects a goroutine of mainPutObject writes.
PutSlot(cur) == cur + 1

\* mainPutObject: the goroutine up to its send.
mainPutObjectTask(k) ==
    /\ test = "PutObject"
    /\ k \in DOMAIN tasks
    /\ tasks[k].pc = "first"
    /\ \E body \in Payloads :
         LET cur == tasks[k].cur
             object == [Key |-> PutKey(cur), Body |-> body, ETag |-> <<>>,
                        Size |-> 0, LastModified |-> Time(0, 0)]
             req == newPutObjectReq(BucketName(1), object.Key, object.Body)
         IN
         \/ /\ ToSend(k, Err("construct", k), <<>>, <<>>, <<>>)
            /\ UNCHANGED <<objects, regWrites>>
         \/ /\ ToSend(k, Err("transport", k), <<>>, execRequest(<<>>, req), <<>>)
            /\ UNCHANGED <<objects, regWrites>>
         \/ \E o \in {Verdict(putObjectVerify(res, 200), res) : res \in ResponsesAnyETag} :
              IF o[1] # ""
              THEN /\ ToSend(k, Err("verify", k), <<0>>, execRequest(<<>>, req), <<>>)
                   /\ UNCHANGED <<objects, regWrites>>
              ELSE /\ objects' = [objects EXCEPT ![PutSlot(cur)] = object]
                   /\ regWrites' = regWrites \cup
                        {[reg |-> "objects", slot |-> <<PutSlot(cur), 0>>, by |-> k,
                          late |-> mpc = "returned"]}
                   /\ ToSend(k, Nil, <<0>>, execRequest(<<>>, req), <<o[2]>>)
    /\ UNCHANGED TaskVars

\* A message with the index of the first goroutine, whatever the goroutine.
partChannelFirstIndex(index, objPart, err) == [index |-> 0, objPart |-> objPart, err |-> err]
\* The message a goroutine of mainUploadPart sends.
partChannel(index, objPart, err) == [index |-> index, objPart |-> objPart, err |-> err]

\* mainUploadPart: the goroutine up to its send.  io.ReadFull and newUploadPartReq
\* fail with an error of kind "construct".  etag keeps the value of
\* res.Header.Get("ETag") the goroutine read.
mainUploadPartTask(k) ==
    /\ test = "UploadPart"
    /\ k \in DOMAIN tasks
    /\ tasks[k].pc = "first"
    /\ \E len \in PartLens :
         LET cur == tasks[k].cur
             part == [PartNumber |-> 1, Size |-> len, ETag |-> <<>>]
             req == newUploadPartReq(BucketName(1), tasks[k].arg.Key,
                                     tasks[k].arg.UploadID, 1, RandomBytes(len))
         IN
         \/ ToSend(k, partChannel(cur, part, Err("construct", k)), <<>>, <<>>, <<>>)
         \/ ToSend(k, partChannel(cur, part, Err("transport", k)), <<>>,
                   execRequest(<<>>, req), <<>>)
         \/ \E o \in {Verdict(uploadPartVerify(res, 200), res) : res \in Responses} :
              IF o[1] # ""
              THEN ToSend(k, partChannel(cur, part, Err("verify", k)), <<0>>,
                          execRequest(<<>>, req), <<>>)
              ELSE LET header == o[2].Header.ETag IN
                   tasks' = [tasks EXCEPT ![k] =
                        [@ EXCEPT !.pc = "send", !.res = <<0>>,
                                  !.etag = header,
                                  !.reqs = execRequest(<<>>, req),
                                  !.got = <<o[2]>>,
                                  !.msg = partChannel(cur,
                                     [part EXCEPT !.ETag = TrimSuffix(TrimPrefix(header))],
                                     Nil)]]
    /\ UNCHANGED <<objects, regWrites>>
    /\ UNCHANGED TaskVars

\* One request of a task that goes on whatever the verifier says of the response.
ProbeGoingOn(k, req, outcomes, onSuccess) ==
    LET held == tasks[k].res
        reqs == execRequest(tasks[k].reqs, req)
        got == tasks[k].got
    IN
    \/ ToSend(k, Err("construct", k), held, tasks[k].reqs, got)
    \/ ToSend(k, Err("transport", k), held, reqs, got)
    \/ \E o \in outcomes :
         LET accepted == IF o[1] = "" THEN Append(got, o[2]) ELSE got IN
         IF onSuccess = "send"
         THEN ToSend(k, IF o[1] = "" THEN Nil ELSE Err("verify", k), Append(held, 0),
                     reqs, accepted)
         ELSE tasks' = [tasks EXCEPT ![k] =
                          [@ EXCEPT !.pc = onSuccess, !.res = Append(held, 0),
                                    !.reqs = reqs, !.got = accepted]]

\* One request of a task that sends an error or goes on: req cannot be built, or
\* it cannot be executed, or its response is verified (outcomes: the verdicts of
\* the verifier on the responses of the server).
Probe(k, req, outcomes, onSuccess) ==
    LET held == tasks[k].res
        reqs == execRequest(tasks[k].reqs, req)
        got == tasks[k].got
    IN
    \/ ToSend(k, Err("construct", k), held, tasks[k].reqs, got)
    \/ ToSend(k, Err("transport", k), held, reqs, got)
    \/ \E o \in outcomes :
         IF o[1] # ""
         THEN ToSend(k, Err("verify", k), Append(held, 0), reqs, got)
         ELSE IF onSuccess = "send"
              THEN ToSend(k, Nil, Append(held, 0), reqs, Append(got, o[2]))
              ELSE tasks' = [tasks EXCEPT ![k] =
                               [@ EXCEPT !.pc = onSuccess, !.res = Append(held, 0),
                                         !.reqs = reqs, !.got = Append(got, o[2])]]

\* mainGetObjectIfNoneMatch: the request with the object's ETag.
mainGetObjectIfNoneMatchTask(k) ==
    /\ test = "GetObjectIfNoneMatch"
    /\ k \in DOMAIN tasks
    /\ tasks[k].pc = "first"
    /\ LET req == newGetObjectIfNoneMatchReq(BucketName(1), tasks[k].arg.Key,
                                             tasks[k].arg.ETag)
           outcomes == {Verdict(getObjectIfNoneMatchVerify(res, <<>>, 304), res) :
                          res \in ResponsesAnyETag}
       IN Probe(k, req, outcomes, "second")
    /\ UNCHANGED <<objects, regWrites>>
    /\ UNCHANGED TaskVars

\* mainGetObjectIfNoneMatch: the request with the invalid ETag.
mainGetObjectIfNoneMatchBadTask(k) ==
    /\ test = "GetObjectIfNoneMatch"
    /\ k \in DOMAIN tasks
    /\ tasks[k].pc = "second"
    /\ LET badReq == newGetObjectIfNoneMatchReq(BucketName(1), tasks[k].arg.Key,
                                                invalidETag)
           outcomes == {Verdict(getObjectIfNoneMatchVerify(badRes, tasks[k].arg.Body, 200),
                                badRes) : badRes \in ResponsesAnyETag}
       IN Probe(k, badReq, outcomes, "send")
    /\ UNCHANGED <<objects, regWrites>>
    /\ UNCHANGED TaskVars

\* mainGetObjectIfModifiedSince: the request with the object's LastModified.
mainGetObjectIfModifiedSinceTask(k) ==
    /\ test = "GetObjectIfModifiedSince"
    /\ k \in DOMAIN tasks
    /\ tasks[k].pc = "first"
    /\ LET req == newGetObjectIfModifiedSinceReq(BucketName(1), tasks[k].arg.Key,
                                                 tasks[k].arg.LastModified)
           outcomes == {Verdict(verifyGetObjectIfModifiedSince(res, <<>>, 304), res) :
                          res \in ResponsesAnyETag}
       IN Probe(k, req, outcomes, "second")
    /\ UNCHANGED <<objects, regWrites>>
    /\ UNCHANGED TaskVars

\* mainGetObjectIfModifiedSince: the request with the past date.
mainGetObjectIfModifiedSinceGoodTask(k) ==
    /\ test = "GetObjectIfModifiedSince"
    /\ k \in DOMAIN tasks
    /\ tasks[k].pc = "second"
    /\ LET goodReq == newGetObjectIfModifiedSinceReq(BucketName(1), tasks[k].arg.Key,
                                                     pastDate)
           outcomes == {Verdict(verifyGetObjectIfModifiedSince(goodRes, tasks[k].arg.Body,
                                                               200), goodRes) :
                          goodRes \in ResponsesAnyETag}
       IN Probe(k, goodReq, outcomes, "send")
    /\ UNCHANGED <<objects, regWrites>>
    /\ UNCHANGED TaskVars

\* rand.Int63n(n), for n > 0: some r with 0 <= r < n.
Int63n(n) == 0..(n - 1)

\* The range a goroutine of mainGetObjectRange asks for, with the bounds of the
\* slice expression objectBody[startRange : endRange+1] and whether they are
\* within the slice (low <= high <= len(objectBody)).
RangeOf(objectBody, startRange, endRange) ==
    [startRange |-> startRange, endRange |-> endRange,
     low |-> startRange, high |-> endRange + 1,
     inBounds |-> 0 <= startRange /\ startRange <= endRange + 1
                    /\ endRange + 1 <= Len(objectBody)]

\* mainGetObjectRange: the goroutine up to its send.  range keeps the range drawn.
mainGetObjectRangeTask(k) ==
    /\ test = "GetObjectRange"
    /\ k \in DOMAIN tasks
    /\ tasks[k].pc = "first"
    /\ \E startRange \in Int63n(tasks[k].arg.Size) :
         \E endRange \in {r + startRange : r \in Int63n(tasks[k].arg.Size - startRange)} :
           LET req == newGetObjectRangeReq(BucketName(1), tasks[k].arg.Key,
                                           startRange, endRange)
               bufRange == Slice(tasks[k].arg.Body, startRange, endRange)
               outcomes == {Verdict(getObjectVerify(res, bufRange, 206), res) :
                              res \in ResponsesAnyETag}
               t == [tasks EXCEPT ![k].range =
                       RangeOf(tasks[k].arg.Body, startRange, endRange)]
           IN   \/ tasks' = [t EXCEPT ![k].pc = "send", ![k].msg = Err("construct", k)]
                \/ tasks' = [t EXCEPT ![k].pc = "send", ![k].msg = Err("transport", k),
                                      ![k].reqs = execRequest(<<>>, req)]
                \/ \E o \in outcomes :
                     tasks' = [t EXCEPT ![k].pc = "send",
                                        ![k].msg = IF o[1] # "" THEN Err("verify", k)
                                                   ELSE Nil,
                                        ![k].res = <<0>>,
                                        ![k].reqs = execRequest(<<>>, req),
                                        ![k].got = IF o[1] # "" THEN <<>> ELSE <<o[2]>>]
    /\ UNCHANGED <<objects, regWrites>>
    /\ UNCHANGED TaskVars

\* A goroutine that empties the registry entry of the object it removes.
mainRemoveObjectExistsTaskForgetting(k) ==
    /\ test = "RemoveObject"
    /\ k \in DOMAIN tasks
    /\ tasks[k].pc = "first"
    /\ LET req == newRemoveObjectReq(BucketName(batch.bucket), tasks[k].arg.Key)
           outcomes == {Verdict(removeObjectVerify(res, 204), res) :
                          res \in ResponsesAnyETag}
       IN Probe(k, req, outcomes, "send")
    /\ objects' = [j \in DOMAIN objects |-> [objects[j] EXCEPT !.Body = <<>>]]
    /\ UNCHANGED regWrites
    /\ UNCHANGED TaskVars
\* mainRemoveObjectExists: the goroutine up to its send (the same for the three lists).
mainRemoveObjectExistsTask(k) ==
    /\ test = "RemoveObject"
    /\ k \in DOMAIN tasks
    /\ tasks[k].pc = "first"
    /\ LET req == newRemoveObjectReq(BucketName(batch.bucket), tasks[k].arg.Key)
           outcomes == {Verdict(removeObjectVerify(res, 204), res) :
                          res \in ResponsesAnyETag}
       IN Probe(k, req, outcomes, "send")
    /\ UNCHANGED <<objects, regWrites>>
    /\ UNCHANGED TaskVars

\* errCh <- err / partCh <- partChannel{...}: the send waits while the buffer is
\* full; then the goroutine returns, its deferred closeResponse calls run and its
\* locals (the requests, the responses, the range) are gone.
TaskSend(k) ==
    /\ k \in DOMAIN tasks
    /\ tasks[k].pc = "send"
    /\ Len(ch) < globalTotalNumTest
    /\ ch' = Append(ch, tasks[k].msg)
    /\ tasks' = [tasks EXCEPT ![k] = [@ EXCEPT !.pc = "done", !.msg = Nil,
                                         !.res = RunDeferred(@), !.sent = @ + 1,
                                         !.reqs = <<>>, !.got = <<>>, !.range = Nil]]
    /\ UNCHANGED <<test, globalTotalNumTest, draws, registries, multipartObjects, mpc, idx,
                   count, batch, ret, messages, received, recvLog, regWrites, ifm, shared,
                   vin, vout>>

-----------------------------------------------------------------------------
(* The receive loops, on the goroutine of the test function. *)

AwaitVars == <<test, globalTotalNumTest, draws, multipartObjects, tasks, idx, batch,
               regWrites, ifm, shared, vin, vout>>

\* The error is printed and the loop goes on with the next result.
ReturnFalseAndGoOn(err) ==
    /\ messages' = Append(messages, err)
    /\ UNCHANGED <<ret, mpc>>
\* printMessage(message, err); return false
ReturnFalse(err) ==
    /\ messages' = Append(messages, err)
    /\ ret' = "false"
    /\ mpc' = "returned"

\* for count > 0 { count--; err, ok := <-errCh; ... }: one iteration.  The channel
\* is never closed, so ok is true.  The same loop ends mainPutObject,
\* mainGetObjectIfNoneMatch, mainGetObjectIfModifiedSince, mainGetObjectRange and
\* each of the three lists of mainRemoveObjectExists.
AwaitErrCh ==
    /\ test \in FanOutTests \ {"UploadPart"}
    /\ mpc = "await"
    /\ count > 0
    /\ ch # <<>>
    /\ LET err == Head(ch) IN
       /\ ch' = Tail(ch)
       /\ count' = count - 1
       /\ received' = received + 1
       /\ recvLog' = Append(recvLog, err)
       /\ IF err # Nil
          THEN ReturnFalse(err)
          ELSE UNCHANGED <<messages, ret, mpc>>
    /\ UNCHANGED registries
    /\ UNCHANGED AwaitVars

\* The slot chosen by the order of arrival of the result.
PartSlotByArrival(partChRes) == received + 1
\* The slot of complMultipartUploads a received result is stored in.
PartSlot(partChRes) == partChRes.index + 1

\* No result taken for a failure.
PartFailedNever(partChRes) == FALSE
\* if partChRes.err != nil
PartFailed(partChRes) == partChRes.err # Nil

\* mainUploadPart: one iteration of the receive loop.  A result without error is
\* appended to objectParts and to the Parts of complMultipartUploads[index]; an
\* index beyond complMultipartUploads is a run-time panic (index out of range),
\* after the append to objectParts.
mainUploadPartAwait ==
    /\ test = "UploadPart"
    /\ mpc = "await"
    /\ count > 0
    /\ ch # <<>>
    /\ LET partChRes == Head(ch)
           objectPart == partChRes.objPart
           complPart == [ETag |-> objectPart.ETag, PartNumber |-> objectPart.PartNumber]
           slot == PartSlot(partChRes)
       IN
       /\ ch' = Tail(ch)
       /\ count' = count - 1
       /\ received' = received + 1
       /\ recvLog' = Append(recvLog, partChRes.err)
       /\ IF PartFailed(partChRes)
          THEN /\ ReturnFalse(partChRes.err)
               /\ UNCHANGED <<objectParts, complMultipartUploads, regWrites>>
          ELSE /\ objectParts' = Append(objectParts, objectPart)
               /\ IF slot \in DOMAIN complMultipartUploads
                  THEN /\ complMultipartUploads' =
                            [complMultipartUploads EXCEPT ![slot].Parts = Append(@, complPart)]
                       /\ regWrites' = regWrites \cup
                            {[reg |-> "objectParts", slot |-> <<Len(objectParts) + 1, 0>>, by |-> 0,
                              late |-> mpc = "returned"],
                             [reg |-> "complMultipartUploads",
                              slot |-> <<slot, Len(complMultipartUploads[slot].Parts) + 1>>,
                              by |-> 0, late |-> mpc = "returned"]}
                       /\ UNCHANGED <<messages, ret, mpc>>
                  ELSE /\ mpc' = "panic"
                       /\ regWrites' = regWrites \cup
                            {[reg |-> "objectParts", slot |-> <<Len(objectParts) + 1, 0>>, by |-> 0,
                              late |-> mpc = "returned"]}
                       /\ UNCHANGED <<complMultipartUploads, messages, ret>>
    /\ UNCHANGED <<test, globalTotalNumTest, draws, objects, copyObjects, multipartObjects,
                   tasks, idx, batch, ifm, shared, vin, vout>>

\* The receive loop is over (count = 0): mainRemoveObjectExists goes on to its next
\* list, or to the next bucket; otherwise printMessage(message, nil); return true.
LoopDone ==
    /\ test \in FanOutTests
    /\ mpc = "await"
    /\ count = 0
    /\ IF test = "RemoveObject" /\ (batch.list < 3 \/ batch.bucket < NumBuckets)
       THEN /\ batch' = IF batch.list < 3
                        THEN [batch EXCEPT !.list = @ + 1]
                        ELSE [bucket |-> batch.bucket + 1, list |-> 1]
            /\ mpc' = "dispatch"
            /\ idx' = 0
            /\ tasks' = <<>>
            /\ UNCHANGED <<messages, ret>>
       ELSE /\ messages' = Append(messages, Nil)
            /\ ret' = "true"
            /\ mpc' = "returned"
            /\ UNCHANGED <<batch, idx, tasks>>
    /\ UNCHANGED <<test, globalTotalNumTest, draws, registries, multipartObjects, ch, count,
                   received, recvLog, regWrites, ifm, shared, vin, vout>>

-----------------------------------------------------------------------------
(* mainGetObjectIfMatch: one bucket, one object, two requests, no goroutines. *)

IfmVars == <<test, globalTotalNumTest, draws, registries, multipartObjects, ch, tasks, idx,
             count, batch, messages, received, recvLog, regWrites, vin, vout>>

\* The error of the test returned before the error of the clean-up.
ReturnOfTestFirst(err, errC) == IF err # Nil THEN err ELSE errC
\* if errC := GetObjectCleanUp(...); errC != nil { return errC }; return err
ReturnOf(err, errC) == IF errC # Nil THEN errC ELSE err

\* GetObjectCleanUp(config, bucketName, objectName), then the return of the test
\* function with the locals it has: the clean-up error if the clean-up fails, err
\* otherwise.
CleanUpAndReturn(err, locals) ==
    \E errC \in {Nil, Err("cleanup", 0)} :
       /\ ifm' = [locals EXCEPT !.pc = "returned", !.cleanUps = @ + 1,
                                !.err = err, !.errC = errC,
                                !.returned = ReturnOf(err, errC)]
       /\ mpc' = "returned"
       /\ ret' = IF ReturnOf(err, errC) = Nil THEN "nil" ELSE "error"

\* What GetObjectIfMatchInit returns when it succeeds: the names of the bucket and
\* of the object, and the ETag of the object.
IfMatchBucket == <<"s3verify-get", "bucket">>
IfMatchObject == <<"s3verify-get", "object">>
IfMatchETag == <<"e", 1>>

\* GetObjectIfMatchInit and its error branch.
mainGetObjectIfMatchInit ==
    /\ test = "GetObjectIfMatch"
    /\ mpc = "init"
    /\ \/ CleanUpAndReturn(Err("init", 0), ifm)
       \/ /\ mpc' = "probe"
          /\ ifm' = [ifm EXCEPT !.pc = "probe"]
          /\ UNCHANGED ret
    /\ UNCHANGED shared
    /\ UNCHANGED IfmVars

\* The request with the object's ETag: NewGetObjectIfMatchReq, ExecRequest,
\* GetObjectIfMatchVerify(res, buf, "200 OK", false), each with its error branch.
mainGetObjectIfMatchProbe ==
    /\ test = "GetObjectIfMatch"
    /\ mpc = "probe"
    /\ \E buf \in Payloads :
         \/ /\ CleanUpAndReturn(Err("construct", 0), ifm)
            /\ UNCHANGED shared
         \/ LET mem == NewGetObjectIfMatchReq(heap, GetObjectIfMatchReq, IfMatchBucket,
                                              IfMatchObject, IfMatchETag)
                req == Len(mem.requests)
                built == [ifm EXCEPT !.req = req]
            IN
            /\ heap' = mem
            /\ GetObjectIfMatchReq' = req
            /\ \/ CleanUpAndReturn(Err("transport", 0), built)
               \/ \E o \in {Verdict(GetObjectIfMatchVerify(res, buf, "200 OK", FALSE), res) :
                              res \in ResponsesAnyETag} :
                    IF o[1] # ""
                    THEN CleanUpAndReturn(Err("verify", 0),
                                          [built EXCEPT !.res = Append(@, 0)])
                    ELSE /\ mpc' = "badProbe"
                         /\ ifm' = [built EXCEPT !.pc = "badProbe", !.res = Append(@, 0),
                                                 !.got = Append(@, o[2])]
                         /\ UNCHANGED ret
    /\ UNCHANGED IfmVars

\* The request with the invalid ETag, verified with
\* GetObjectIfMatchVerify(badRes, []byte(""), "412 Precondition Failed", true),
\* and the clean-up that ends the test.
mainGetObjectIfMatchBadProbe ==
    /\ test = "GetObjectIfMatch"
    /\ mpc = "badProbe"
    /\ \/ /\ CleanUpAndReturn(Err("construct", 0), ifm)
          /\ UNCHANGED shared
       \/ LET mem == NewGetObjectIfMatchReq(heap, GetObjectIfMatchReq, IfMatchBucket,
                                            IfMatchObject, invalidETag)
              badReq == Len(mem.requests)
              built == [ifm EXCEPT !.badReq = badReq]
          IN
          /\ heap' = mem
          /\ GetObjectIfMatchReq' = badReq
          /\ \/ CleanUpAndReturn(Err("transport", 0), built)
             \/ \E o \in {Verdict(GetObjectIfMatchVerify(badRes, <<>>,
                                                        "412 Precondition Failed", TRUE),
                                  badRes) : badRes \in ResponsesAnyETag} :
                  IF o[1] # ""
                  THEN CleanUpAndReturn(Err("verify", 0),
                                        [built EXCEPT !.res = Append(@, 0)])
                  ELSE CleanUpAndReturn(Nil, [built EXCEPT !.res = Append(@, 0),
                                                           !.got = Append(@, o[2])])
    /\ UNCHANGED IfmVars

-----------------------------------------------------------------------------
(* The test cases. *)

Next ==
    \/ Dispatch
    \/ StartAwait
    \/ \E k \in 1..Max(NumObjects, MaxMultipartObjects) :
         \/ mainPutObjectTask(k)
         \/ mainUploadPartTask(k)
         \/ mainGetObjectIfNoneMatchTask(k)
         \/ mainGetObjectIfNoneMatchBadTask(k)
         \/ mainGetObjectIfModifiedSinceTask(k)
         \/ mainGetObjectIfModifiedSinceGoodTask(k)
         \/ mainGetObjectRangeTask(k)
         \/ mainRemoveObjectExistsTask(k)
         \/ TaskSend(k)
    \/ AwaitErrCh
    \/ mainUploadPartAwait
    \/ LoopDone
    \/ mainGetObjectIfMatchInit
    \/ mainGetObjectIfMatchProbe
    \/ mainGetObjectIfMatchBadProbe

Spec == Init /\ [][Next]_vars

-----------------------------------------------------------------------------
(* mainUploadPart alone, with parts of the least and of the greatest length, for
   as many multipart objects as complMultipartUploads has elements. *)

\* The least and the greatest value of rand.Intn(1<<20).
ExtremeDraws == {0, PartLenSpan - 1}

InitUploadPart ==
    /\ FanOutInit
    /\ test = "UploadPart"
    /\ Len(multipartObjects) <= NumComplMultipartUploads
    /\ draws = ExtremeDraws
    /\ vin = Nil
    /\ vout = "unset"

NextUploadPart ==
    \/ Dispatch
    \/ StartAwait
    \/ \E k \in 1..NumComplMultipartUploads :
         \/ mainUploadPartTask(k)
         \/ TaskSend(k)
    \/ mainUploadPartAwait
    \/ LoopDone

SpecUploadPart == InitUploadPart /\ [][NextUploadPart]_vars

-----------------------------------------------------------------------------
(* One call of a verifier on an arbitrary response. *)

Verifiers == {"putObjectVerify", "removeObjectVerify", "uploadPartVerify",
              "getObjectIfNoneMatchVerify", "verifyGetObjectIfModifiedSince",
              "GetObjectIfMatchVerify"}

\* The arguments of a call (shouldFail is an argument of GetObjectIfMatchVerify only).
VerifyInputs ==
    {in \in [verifier : Verifiers, res : ResponsesAnyETag,
             objectBody : {<<>>} \cup Payloads, expectedStatusCode : StatusCodes,
             shouldFail : BOOLEAN] :
        in.shouldFail => in.verifier = "GetObjectIfMatchVerify"}

CallVerifier(in) ==
    CASE in.verifier = "putObjectVerify" ->
           putObjectVerify(in.res, in.expectedStatusCode)
      [] in.verifier = "removeObjectVerify" ->
           removeObjectVerify(in.res, in.expectedStatusCode)
      [] in.verifier = "uploadPartVerify" ->
           uploadPartVerify(in.res, in.expectedStatusCode)
      [] in.verifier = "getObjectIfNoneMatchVerify" ->
           getObjectIfNoneMatchVerify(in.res, in.objectBody, in.expectedStatusCode)
      [] in.verifier = "verifyGetObjectIfModifiedSince" ->
           verifyGetObjectIfModifiedSince(in.res, in.objectBody, in.expectedStatusCode)
      [] in.verifier = "GetObjectIfMatchVerify" ->
           GetObjectIfMatchVerify(in.res, in.objectBody,
                                  StatusText(in.expectedStatusCode), in.shouldFail)

\* No test case runs.
NoTestRuns ==
    /\ test = "none"
    /\ globalTotalNumTest = 1
    /\ draws = {0}
    /\ objects = <<>>
    /\ copyObjects = <<>>
    /\ multipartObjects = <<>>
    /\ objectParts = <<>>
    /\ complMultipartUploads = [k \in 1..NumComplMultipartUploads |-> [Parts |-> <<>>]]
    /\ ch = <<>>
    /\ tasks = <<>>
    /\ mpc = "idle"
    /\ idx = 0
    /\ count = 0
    /\ batch = [bucket |-> 1, list |-> 1]
    /\ ret = "none"
    /\ messages = <<>>
    /\ received = 0
    /\ recvLog = <<>>
    /\ regWrites = {}
    /\ ifm = IdleIfm
    /\ GetObjectIfMatchReq = 1
    /\ heap = InitialHeap

InitVerify ==
    /\ NoTestRuns
    /\ vin \in VerifyInputs
    /\ vout = "unset"

VerifyCall ==
    /\ vin # Nil
    /\ vout = "unset"
    /\ vout' = CallVerifier(vin)
    /\ UNCHANGED <<test, globalTotalNumTest, draws, registries, multipartObjects, ch, tasks,
                   mpc, idx, count, batch, ret, messages, received, recvLog,
                   regWrites, ifm, shared, vin>>

NextVerify == VerifyCall

SpecVerify == InitVerify /\ [][NextVerify]_vars

-----------------------------------------------------------------------------
(* Properties. *)

FanOut == test \in FanOutTests
Returned == mpc = "returned"

\* N: the number of tasks the running dispatch loop starts.
BatchSize == Len(DispatchList)

\* The results a test case receives when it passes.
TotalResults ==
    IF test = "RemoveObject"
    THEN NumBuckets * (Len(objects) + Len(copyObjects) + Len(multipartObjects))
    ELSE BatchSize

\* The goroutine waits in its send and the buffer is full.
WaitsToSend(k) == tasks[k].pc = "send" /\ Len(ch) >= globalTotalNumTest

\* The ETag a goroutine of mainUploadPart stores for the header value it read.
StoredETag(k) == TrimSuffix(TrimPrefix(tasks[k].etag))

IsPrefix(s, t) == Len(s) <= Len(t) /\ SubSeq(t, 1, Len(s)) = s

\* C1: once a fan-out test case has seen an error and returned false, it has
\* received the results of all N tasks it dispatched, and no task is left waiting
\* in its send on a full channel that nobody receives from.
C1_DrainsAllAfterFirstError ==
    (FanOut /\ Returned /\ ret = "false") =>
        /\ received = BatchSize
        /\ \A k \in DOMAIN tasks : ~WaitsToSend(k)

\* C2: every registry write is made by the receive loop on the caller's goroutine
\* (by = 0), never by a spawned task.
C2_OnlyAggregatorWrites ==
    \A w \in regWrites : w.by = 0

\* C3: when mainUploadPart has passed, the part stored in
\* complMultipartUploads[i].Parts carries the ETag returned to the task dispatched
\* for multipartObjects[i], whatever the order the tasks completed in.
C3_PartETagByIndex ==
    (test = "UploadPart" /\ Returned /\ ret = "true") =>
        \A i \in DOMAIN multipartObjects :
            /\ Len(complMultipartUploads[i].Parts) = 1
            /\ complMultipartUploads[i].Parts[1].ETag = StoredETag(i)

\* C3 happens: two parts with different ETags, received in the order opposite to
\* the order of dispatch, and the test passed.
C3_Witness ==
    /\ test = "UploadPart" /\ Returned /\ ret = "true"
    /\ Len(multipartObjects) = 2
    /\ StoredETag(1) # StoredETag(2)
    /\ objectParts[1].ETag = StoredETag(2)

\* C4: every registry write of the receive loop of mainUploadPart is placed by the
\* originating index of the result: objectParts[j] is the part of the task
\* dispatched for multipartObjects[j], as the Parts of complMultipartUploads[j] are.
C4_ObjectPartsByIndex ==
    test = "UploadPart" =>
        \A j \in DOMAIN objectParts :
            /\ j \in DOMAIN tasks
            /\ tasks[j].pc = "done"
            /\ objectParts[j].ETag = StoredETag(j)

\* C5: the result channel of a fan-out test case has capacity exactly N, the
\* number of tasks the test case dispatches, so no task ever waits in its send.
C5_CapacityIsN ==
    (FanOut /\ mpc = "await" /\ BatchSize >= 1) =>
        /\ globalTotalNumTest = BatchSize
        /\ \A k \in DOMAIN tasks : ~WaitsToSend(k)

\* C6: a fan-out test case returns only after its receive loop has received
\* exactly N results, N the number of tasks it dispatched.
C6_ReportsAfterNReceives ==
    (FanOut /\ Returned) => received = BatchSize

\* No two writes of the write log are writes of the same slot of a registry.
C7_SlotsWrittenOnce ==
    \A w1, w2 \in regWrites :
        (w1.reg = w2.reg /\ w1.slot = w2.slot) => w1 = w2

\* A step keeps every entry the registries hold.
C7_EntriesKept ==
    /\ \A k \in DOMAIN objects : objects[k] # Nil => objects'[k] = objects[k]
    /\ IsPrefix(copyObjects, copyObjects')
    /\ IsPrefix(objectParts, objectParts')
    /\ \A i \in DOMAIN complMultipartUploads :
          IsPrefix(complMultipartUploads[i].Parts, complMultipartUploads'[i].Parts)

\* C7: within a test case a registry slot is written at most once, by one
\* goroutine, and an entry of a registry is never removed or overwritten by a
\* later write.
C7_WriteOnceAppendOnly ==
    []C7_SlotsWrittenOnce /\ [][C7_EntriesKept]_vars

\* C7 happens: every slot of objects has been written by the task of its index,
\* and mainPutObject passed.
C7_Witness ==
    /\ test = "PutObject" /\ Returned /\ ret = "true"
    /\ Cardinality(regWrites) = NumObjects
    /\ \A k \in DOMAIN objects : objects[k] # Nil

\* The verdict of each of the three checks of a verifier call.
StatusFails(in) == in.res.StatusCode # in.expectedStatusCode
HeaderFails(in) == ~in.res.Header.std
BodyFails(in) ==
    IF in.verifier \in {"putObjectVerify", "removeObjectVerify", "uploadPartVerify"}
    THEN in.res.Body # Bytes(<<>>)
    ELSE IF in.verifier = "GetObjectIfMatchVerify" /\ in.shouldFail
    THEN ~(in.res.Body.xml /\ in.res.Body.code = "PreconditionFailed")
    ELSE in.res.Body # Bytes(in.objectBody)

\* The check an error comes from ("decode" is an error of the body check).
CheckOf(err) == IF err = "decode" THEN "body" ELSE err

\* The first failing check of a call when the checks run in the given order.
FirstFailing(in, order) ==
    LET fails(c) == CASE c = "status" -> StatusFails(in)
                      [] c = "header" -> HeaderFails(in)
                      [] c = "body" -> BodyFails(in)
    IN IF fails(order[1]) THEN order[1]
       ELSE IF fails(order[2]) THEN order[2]
       ELSE IF fails(order[3]) THEN order[3]
       ELSE ""

\* The order each verifier runs its checks in.
CheckOrder(verifier) ==
    CASE verifier \in {"putObjectVerify", "getObjectIfNoneMatchVerify"} ->
           <<"header", "status", "body">>
      [] verifier \in {"removeObjectVerify", "verifyGetObjectIfModifiedSince",
                       "GetObjectIfMatchVerify"} ->
           <<"header", "body", "status">>
      [] verifier = "uploadPartVerify" ->
           <<"body", "status", "header">>

\* C8: every verifier checks the status, then the headers, then the body, and
\* returns the error of the first failing check in that order.
C8_StatusHeadersBody ==
    vout # "unset" =>
        CheckOf(vout) = FirstFailing(vin, <<"status", "header", "body">>)

\* C8 as amended: every verifier returns the error of the first failing check in
\* its own order; for a response with the standard headers that fails both the
\* status and the body check, putObjectVerify and getObjectIfNoneMatchVerify
\* return the status mismatch and the other four the error of the body check.
C8_OwnOrder ==
    vout # "unset" =>
        /\ CheckOf(vout) = FirstFailing(vin, CheckOrder(vin.verifier))
        /\ (StatusFails(vin) /\ BodyFails(vin) /\ ~HeaderFails(vin)) =>
              CheckOf(vout) = IF vin.verifier \in {"putObjectVerify",
                                                   "getObjectIfNoneMatchVerify"}
                              THEN "status" ELSE "body"

\* C8 happens: uploadPartVerify has run on a response with the standard headers,
\* an unexpected status and an unexpected body.
C8_Witness ==
    /\ vout # "unset"
    /\ vin.verifier = "uploadPartVerify"
    /\ StatusFails(vin) /\ BodyFails(vin) /\ ~HeaderFails(vin)

\* The first error of the receive log (Nil if there is none).
RECURSIVE FirstError(_)
FirstError(log) ==
    IF log = <<>> THEN Nil
    ELSE IF Head(log) # Nil THEN Head(log)
    ELSE FirstError(Tail(log))

\* C9: a fan-out test case returns true if and only if all the results it
\* received carry no error (and then it received them all); otherwise it reports
\* once, and the error it reports is the first error in receive order.
C9_PassIffNoError ==
    (FanOut /\ Returned) =>
        /\ Len(messages) = 1
        /\ ret = "true" <=> FirstError(recvLog) = Nil
        /\ ret = "true" => Len(recvLog) = TotalResults
        /\ messages[1] = FirstError(recvLog)

\* C9 happens: the test case failed on the error of a result received after a
\* result without error, while the error of another task is still in the channel.
C9_Witness ==
    /\ FanOut /\ Returned /\ ret = "false"
    /\ Len(recvLog) >= 2
    /\ \E j \in DOMAIN ch : (IF test = "UploadPart" THEN ch[j].err ELSE ch[j]) # Nil

\* C10: a task that has returned, and mainGetObjectIfMatch once it has returned,
\* has closed every response it obtained exactly once.
C10_ResponsesClosedOnce ==
    /\ \A k \in DOMAIN tasks :
          tasks[k].pc = "done" => \A j \in DOMAIN tasks[k].res : tasks[k].res[j] = 1
    /\ ifm.pc = "returned" => \A j \in DOMAIN ifm.res : ifm.res[j] = 1

-----------------------------------------------------------------------------
(* The requests the tasks build and the responses they accept. *)

\* The error of a result of the running test case.
ErrOf(msg) == IF test = "UploadPart" THEN msg.err ELSE msg

\* The goroutine is at its send with a result without error.
Succeeded(k) == tasks[k].pc = "send" /\ ErrOf(tasks[k].msg) = Nil

\* The headers of which a request variant sets one.
Discriminating == {"If-Match", "If-None-Match", "If-Modified-Since", "Range"}

\* The discriminating header the requests of a test case are to carry, if any.
VariantHeader ==
    CASE test = "GetObjectIfNoneMatch" -> {"If-None-Match"}
      [] test = "GetObjectIfModifiedSince" -> {"If-Modified-Since"}
      [] test = "GetObjectRange" -> {"Range"}
      [] test = "GetObjectIfMatch" -> {"If-Match"}
      [] OTHER -> {}

\* The status codes of the table, for the requests of a test case in order.
ExpectedCodes ==
    CASE test = "PutObject" -> <<200>>
      [] test = "RemoveObject" -> <<204>>
      [] test = "UploadPart" -> <<200>>
      [] test = "GetObjectRange" -> <<206>>
      [] test = "GetObjectIfNoneMatch" -> <<304, 200>>
      [] test = "GetObjectIfModifiedSince" -> <<304, 200>>
      [] test = "GetObjectIfMatch" -> <<200, 412>>
      [] OTHER -> <<>>

\* C11: no builder changes package-level state (GetObjectIfMatchReq and the memory
\* behind it stay as declared), and the request a first builder call returned is
\* not changed by a second call: the first request of mainGetObjectIfMatch keeps
\* the If-Match header and the signature it was built with, and is not the second.
C11_BuildersLeaveSharedState ==
    /\ GetObjectIfMatchReq = 1
    /\ heap = InitialHeap
    /\ ifm.req # 0 =>
          /\ Deref(heap, ifm.req).Header["If-Match"] = IfMatchETag
          /\ ifm.badReq # ifm.req

\* C12: every request a builder returns carries User-Agent and
\* X-Amz-Content-Sha256; the conditional and range variants carry exactly one of
\* If-Match, If-None-Match, If-Modified-Since, Range, and an Upload-Part request
\* the query parameters partNumber and uploadId.
C12_IdentityAndHashHeaders ==
    /\ \A k \in DOMAIN tasks : \A j \in DOMAIN tasks[k].reqs :
          LET req == tasks[k].reqs[j] IN
          /\ {"User-Agent", "X-Amz-Content-Sha256"} \subseteq DOMAIN req.customHeader
          /\ DOMAIN req.customHeader \cap Discriminating = VariantHeader
          /\ test = "UploadPart" => DOMAIN req.queryValues = {"partNumber", "uploadId"}
    /\ \A at \in {ifm.req, ifm.badReq} \ {0} :
          LET header == Deref(heap, at).Header IN
          /\ {"User-Agent", "X-Amz-Content-Sha256"} \subseteq DOMAIN header
          /\ DOMAIN header \cap Discriminating = VariantHeader

\* C13: a goroutine has sent no result until it returns and exactly one when it
\* has returned; the result it is about to send carries its own error (or none)
\* and, in mainUploadPart, the index it was started with; the results sent are as
\* many as the goroutines that returned, and every result in the channel is the
\* result of its sender.
C13_OneResultPerTask ==
    FanOut =>
        /\ \A k \in DOMAIN tasks :
              /\ tasks[k].sent = IF tasks[k].pc = "done" THEN 1 ELSE 0
              /\ tasks[k].pc = "send" =>
                    /\ ErrOf(tasks[k].msg) # Nil => ErrOf(tasks[k].msg).origin = k
                    /\ test = "UploadPart" => tasks[k].msg.index = tasks[k].cur
        /\ (test # "RemoveObject" \/ mpc # "dispatch") =>
              Len(ch) + received = Cardinality({k \in DOMAIN tasks : tasks[k].pc = "done"})
        /\ \A j \in DOMAIN ch :
              /\ ErrOf(ch[j]) # Nil => tasks[ErrOf(ch[j]).origin].pc = "done"
              /\ test = "UploadPart" =>
                    /\ tasks[ch[j].index + 1].pc = "done"
                    /\ ch[j].err # Nil => ch[j].err.origin = ch[j].index + 1
                    /\ \A i \in DOMAIN ch : ch[i].index = ch[j].index => i = j

\* C13 happens: the channel of mainUploadPart holds the verification error of the
\* second goroutine in front of the result without error of the first.
C13_Witness ==
    /\ test = "UploadPart"
    /\ Len(ch) = 2
    /\ ch[1].err = Err("verify", 2) /\ ch[1].index = 1
    /\ ch[2].err = Nil /\ ch[2].index = 0

\* C14: every response a task, or mainGetObjectIfMatch, accepts has the status
\* code of the table for its request, and a task that succeeds has accepted a
\* response to each of its requests.
C14_ExpectedStatus ==
    /\ \A k \in DOMAIN tasks :
          /\ \A j \in DOMAIN tasks[k].got :
                /\ j \in DOMAIN ExpectedCodes
                /\ tasks[k].got[j].StatusCode = ExpectedCodes[j]
          /\ Succeeded(k) => Len(tasks[k].got) = Len(ExpectedCodes)
    /\ \A j \in DOMAIN ifm.got :
          /\ j \in DOMAIN ExpectedCodes
          /\ ifm.got[j].StatusCode = ExpectedCodes[j]
    /\ (test = "GetObjectIfMatch" /\ ret = "nil") => Len(ifm.got) = 2

\* C14 happens: a goroutine of mainRemoveObjectExists succeeds on the second
\* bucket, and mainGetObjectIfMatch has accepted its first response.
C14_Witness ==
    \/ /\ test = "RemoveObject" /\ batch.bucket = 2
       /\ \E k \in DOMAIN tasks : Succeeded(k) /\ Len(tasks[k].got) = 1
    \/ /\ test = "GetObjectIfMatch" /\ Len(ifm.got) = 1 /\ mpc = "badProbe"

C16_RangeWithinPayload ==
    \A k \in DOMAIN tasks :
        LET P == tasks[k].arg.Body
            r == tasks[k].range
        IN (test = "GetObjectRange" /\ r # Nil
              /\ tasks[k].arg.Size = Len(P) /\ Len(P) >= 1) =>
            /\ 0 <= r.startRange /\ r.startRange <= r.endRange /\ r.endRange < Len(P)
            /\ r.inBounds
            /\ \A j \in DOMAIN tasks[k].reqs :
                  tasks[k].reqs[j].customHeader["Range"] =
                     <<"bytes=">> \o Itoa(r.startRange) \o <<"-">> \o Itoa(r.endRange)
            /\ \A j \in DOMAIN tasks[k].got :
                  /\ tasks[k].got[j].Body =
                        Bytes([i \in 1..(r.endRange - r.startRange + 1) |->
                                 P[r.startRange + i]])
                  /\ Len(tasks[k].got[j].Body.data) = r.endRange - r.startRange + 1

\* C16 happens: a goroutine succeeds with the range 1-2 of a payload of 3 bytes.
C16_Witness ==
    /\ test = "GetObjectRange"
    /\ \E k \in DOMAIN tasks :
          /\ Succeeded(k) /\ Len(tasks[k].got) = 1
          /\ Len(tasks[k].arg.Body) = 3
          /\ tasks[k].range.startRange = 1 /\ tasks[k].range.endRange = 2

\* C17: in mainGetObjectIfNoneMatch, a task that succeeds got 304 with an empty
\* body to the request with If-None-Match = E and 200 with the payload to the
\* second request, and the ETag of the second request is different from E.
C17_SecondETagDiffers ==
    test = "GetObjectIfNoneMatch" =>
        \A k \in DOMAIN tasks :
            LET E == tasks[k].arg.ETag
                P == tasks[k].arg.Body
            IN
            /\ Succeeded(k) =>
                  /\ tasks[k].reqs[1].customHeader["If-None-Match"] = E
                  /\ tasks[k].got[1].StatusCode = 304
                  /\ tasks[k].got[1].Body = Bytes(<<>>)
                  /\ tasks[k].got[2].StatusCode = 200
                  /\ tasks[k].got[2].Body = Bytes(P)
            /\ Len(tasks[k].reqs) = 2 =>
                  tasks[k].reqs[2].customHeader["If-None-Match"] # E

\* The time t is later than the time u; t predates u.
After(t, u) == t.sec > u.sec \/ (t.sec = u.sec /\ t.nsec > u.nsec)
Before(t, u) == After(u, t)

\* C18: in mainGetObjectIfModifiedSince, the first request (expecting 304) carries
\* a time later than the object's LastModified, and the second (expecting 200) a
\* time before it.
C18_LaterThenEarlier ==
    test = "GetObjectIfModifiedSince" =>
        \A k \in DOMAIN tasks :
            LET sent(j) == ParseHTTP(tasks[k].reqs[j].customHeader["If-Modified-Since"]) IN
            /\ Len(tasks[k].reqs) >= 1 => After(sent(1), tasks[k].arg.LastModified)
            /\ Len(tasks[k].reqs) >= 2 => Before(sent(2), tasks[k].arg.LastModified)

\* C19: mainGetObjectIfMatch returns nil only if the response to the request with
\* the invalid ETag has status 412 and an error document with the code
\* PreconditionFailed; every other response to it is never accepted.
C19_PreconditionFailed ==
    test = "GetObjectIfMatch" =>
        /\ Len(ifm.got) = 2 =>
              /\ ifm.got[2].StatusCode = 412
              /\ ifm.got[2].Body = XmlError("PreconditionFailed")
        /\ (Returned /\ ret = "nil") =>
              /\ Len(ifm.got) = 2
              /\ Deref(heap, ifm.badReq).Header["If-Match"] = invalidETag

\* C19 happens: mainGetObjectIfMatch has returned nil.
C19_Witness ==
    /\ test = "GetObjectIfMatch" /\ Returned /\ ret = "nil"
    /\ Len(ifm.got) = 2 /\ ifm.cleanUps = 1

\* C20: a fan-out test case starts one goroutine per element of its list, each
\* with the index and the element of its own position as they are at the go
\* statement; once the dispatch loop is over the goroutines are N, and N is the
\* number of results the receive loop is set to receive.
C20_OneTaskPerFixture ==
    FanOut =>
        /\ Len(tasks) = IF mpc = "dispatch" THEN idx ELSE BatchSize
        /\ \A k \in DOMAIN tasks :
              /\ tasks[k].cur = k - 1
              /\ test # "PutObject" => tasks[k].arg = DispatchList[k]
        /\ mpc = "await" => count + received = BatchSize

\* C20 happens: mainRemoveObjectExists waits for the one result of the second list
\* of the second bucket.
C20_Witness ==
    /\ test = "RemoveObject" /\ mpc = "await"
    /\ batch = [bucket |-> 2, list |-> 2]
    /\ Len(tasks) = NumCopyObjects /\ count = NumCopyObjects

-----------------------------------------------------------------------------
(* One call of the executor per request, and none after an error. *)

\* The calls of the executor a goroutine at its send has made, given the
\* responses it accepted and the error it is about to send.
CallsFor(k) ==
    LET err == ErrOf(tasks[k].msg) IN
    IF err # Nil /\ err.kind \in {"transport", "verify"}
    THEN Len(tasks[k].got) + 1
    ELSE Len(tasks[k].got)

\* A goroutine has handed the executor one request more than it has accepted
\* responses at most, and at its send it has made one call for each response it
\* accepted and one for the request that failed, if one did; the error it
\* sends is its own.
C21_OneCallPerRequest ==
    FanOut =>
      \A k \in DOMAIN tasks :
        /\ Len(tasks[k].reqs) <= Len(tasks[k].got) + 1
        /\ tasks[k].pc = "send" =>
             /\ Len(tasks[k].reqs) = CallsFor(k)
             /\ ErrOf(tasks[k].msg) # Nil => ErrOf(tasks[k].msg).origin = k

\* A goroutine at its send makes no further call: its next step is the send of
\* the result it has.
C21_SendsThatResult ==
    FanOut =>
      \A k \in DOMAIN tasks :
        (tasks[k].pc = "send" /\ k \in DOMAIN tasks' /\ tasks'[k] # tasks[k])
          => tasks'[k].pc = "done" /\ ch' = Append(ch, tasks[k].msg)

\* C21: no request is retried: each request built is handed to the executor at
\* most once, and after a construction, transport or verification error the
\* task issues no further request and ends with that error as its result.
C21_NoRetry == []C21_OneCallPerRequest /\ [][C21_SendsThatResult]_vars

\* A goroutine of two requests whose second request failed in transport is at
\* its send, after another goroutine sent the error of its first request.
C21_Witness ==
    /\ test = "GetObjectIfNoneMatch"
    /\ \E k \in DOMAIN tasks :
         /\ tasks[k].pc = "send"
         /\ tasks[k].msg = Err("transport", k)
         /\ Len(tasks[k].reqs) = 2
         /\ Len(tasks[k].got) = 1
    /\ \E k \in DOMAIN tasks :
         /\ tasks[k].pc = "done"
         /\ Err("verify", k) \in {ch[j] : j \in DOMAIN ch}

-----------------------------------------------------------------------------
(* Registry writes and the return of the test function. *)

\* mainPutObject returned true: every slot holds an object written before the return.
C22_FilledAtTrue ==
    (test = "PutObject" /\ ret = "true") =>
       \A i \in DOMAIN objects :
         /\ objects[i] # Nil
         /\ \E w \in regWrites : w.reg = "objects" /\ w.slot = <<i, 0>> /\ ~w.late

\* C22: once a test case has reported, none of its tasks writes a registry any
\* more; when mainPutObject returns true every slot of objects holds an object
\* written before the return.
C22_NoWriteAfterReport ==
    /\ \A w \in regWrites : ~w.late
    /\ C22_FilledAtTrue

-----------------------------------------------------------------------------
(* The ETag of a part. *)

\* The header value is x between two double quotes, x without a quote at either end.
IsQuoted(h) ==
    /\ Len(h) >= 2
    /\ h[1] = Quote /\ h[Len(h)] = Quote
    /\ Len(h) > 2 => (h[2] # Quote /\ h[Len(h) - 1] # Quote)

\* The header value has no double quote.
HasNoQuote(h) == \A j \in DOMAIN h : h[j] # Quote

\* The ETag to store for a header value of one of the two forms.
Unquoted(h) == IF IsQuoted(h) THEN [j \in 1..(Len(h) - 2) |-> h[j + 1]] ELSE h

\* C23: the ETag of a part that mainUploadPart stores is the value of the ETag
\* header without its surrounding double quotes: x for a header "x", and the
\* header itself when it has no quotes.
C23_QuotesStripped ==
    test = "UploadPart" =>
      /\ \A k \in DOMAIN tasks :
           (Succeeded(k) /\ (IsQuoted(tasks[k].etag) \/ HasNoQuote(tasks[k].etag)))
              => tasks[k].msg.objPart.ETag = Unquoted(tasks[k].etag)
      /\ \A i \in DOMAIN complMultipartUploads :
           \A j \in DOMAIN complMultipartUploads[i].Parts :
              (IsQuoted(tasks[i].etag) \/ HasNoQuote(tasks[i].etag))
                => complMultipartUploads[i].Parts[j].ETag = Unquoted(tasks[i].etag)
      /\ \A j \in DOMAIN objectParts :
           \E k \in DOMAIN tasks :
              /\ tasks[k].pc = "done"
              /\ IsQuoted(tasks[k].etag) \/ HasNoQuote(tasks[k].etag)
              /\ objectParts[j].ETag = Unquoted(tasks[k].etag)

\* A part of a quoted header and a part of a header without quotes are in the
\* registries.
C23_Witness ==
    /\ test = "UploadPart" /\ ret = "true"
    /\ Len(tasks) = 2
    /\ tasks[1].etag = <<Quote, "a", Quote>>
    /\ tasks[2].etag = <<"b">>
    /\ complMultipartUploads[1].Parts = <<[ETag |-> <<"a">>, PartNumber |-> 1]>>
    /\ complMultipartUploads[2].Parts = <<[ETag |-> <<"b">>, PartNumber |-> 1]>>
    /\ Len(objectParts) = 2

-----------------------------------------------------------------------------
(* The parts of mainUploadPart. *)

\* 4 MiB <= n < 5 MiB
IsPartLength(n) == 4 * 1024 * 1024 <= n /\ n < 5 * 1024 * 1024

\* C24: every goroutine of mainUploadPart uploads a payload of a length L with
\* 4 MiB <= L < 5 MiB, records part.Size = L, and uses the part number 1 in the
\* partNumber query parameter and in the part stored in the registries.
C24_PartLengthAndNumber ==
    test = "UploadPart" =>
      /\ \A k \in DOMAIN tasks :
           tasks[k].pc = "send" =>
             LET part == tasks[k].msg.objPart IN
             /\ IsPartLength(part.Size)
             /\ part.PartNumber = 1
             /\ \A j \in DOMAIN tasks[k].reqs :
                  /\ tasks[k].reqs[j].contentLength = part.Size
                  /\ tasks[k].reqs[j].contentBody = RandomBytes(part.Size).data
                  /\ tasks[k].reqs[j].queryValues["partNumber"] = <<1>>
      /\ \A j \in DOMAIN objectParts :
           IsPartLength(objectParts[j].Size) /\ objectParts[j].PartNumber = 1
      /\ \A i \in DOMAIN complMultipartUploads :
           \A j \in DOMAIN complMultipartUploads[i].Parts :
              complMultipartUploads[i].Parts[j].PartNumber = 1

\* A part of 4 MiB and a part of 5 MiB - 1 are in objectParts, and the test passed.
C24_Witness ==
    /\ test = "UploadPart" /\ ret = "true"
    /\ \E i, j \in DOMAIN objectParts :
         /\ objectParts[i].Size = 4 * 1024 * 1024
         /\ objectParts[j].Size = 5 * 1024 * 1024 - 1

-----------------------------------------------------------------------------
(* The clean-up of mainGetObjectIfMatch. *)

\* C25: mainGetObjectIfMatch calls GetObjectCleanUp exactly once on every path
\* to its return, and not before; when the clean-up fails its error is the one
\* returned, whatever the error of the test, and the error of the test is
\* returned when the clean-up succeeds.
C25_CleanUpOnceAndItsErrorFirst ==
    test = "GetObjectIfMatch" =>
      /\ ifm.cleanUps = IF mpc = "returned" THEN 1 ELSE 0
      /\ mpc = "returned" =>
           /\ ifm.errC # Nil => ifm.returned = ifm.errC
           /\ ifm.errC = Nil => ifm.returned = ifm.err
           /\ ret = IF ifm.returned = Nil THEN "nil" ELSE "error"

\* The second request failed its verification and the clean-up failed too.
C25_Witness ==
    /\ test = "GetObjectIfMatch" /\ mpc = "returned"
    /\ ifm.err = Err("verify", 0)
    /\ ifm.badReq # 0
    /\ ifm.errC = Err("cleanup", 0)
    /\ ifm.returned = Err("cleanup", 0)

-----------------------------------------------------------------------------
(* The test cases that only read the registries. *)

ReadOnlyTests == {"GetObjectIfNoneMatch", "GetObjectIfModifiedSince", "GetObjectRange",
                  "RemoveObject"}

\* No step of a test case that only reads changes a registry.
C26_NoRegistryStep ==
    test \in ReadOnlyTests =>
       /\ UNCHANGED <<objects, copyObjects, objectParts, complMultipartUploads>>
       /\ UNCHANGED multipartObjects

\* C26: mainGetObjectIfNoneMatch, mainGetObjectIfModifiedSince, mainGetObjectRange
\* and mainRemoveObjectExists leave every registry as it is, whether they pass or
\* fail; mainRemoveObjectExists keeps the objects it deleted in the registries.
C26_RegistriesReadOnly ==
    /\ [](test \in ReadOnlyTests => regWrites = {})
    /\ [][C26_NoRegistryStep]_vars

\* mainRemoveObjectExists passed, having removed every list of every bucket, and
\* the registries have the entries they had.
C26_Witness ==
    /\ test = "RemoveObject" /\ ret = "true"
    /\ batch = [bucket |-> NumBuckets, list |-> 3]
    /\ Len(objects) = NumObjects
    /\ Len(copyObjects) = NumCopyObjects
    /\ \A i \in DOMAIN objects : objects[i] # Nil /\ objects[i].Body # <<>>

-----------------------------------------------------------------------------
(* The batches of mainRemoveObjectExists on their one channel. *)

\* The goroutines of the batch being removed that have sent their result.
SentOfBatch == {k \in DOMAIN tasks : tasks[k].pc = "done"}

\* C27: in mainRemoveObjectExists every result received by the receive loop of a
\* batch was sent by a goroutine of that batch, and the channel is empty when the
\* next batch, or the next bucket, is dispatched, as long as no error was
\* received: when the dispatch of a batch starts there is no goroutine and no
\* result; during the dispatch the results in the channel are those of the
\* goroutines of the batch that have sent; in the receive loop these results are
\* in the channel or received; and when the loop has received its count every
\* goroutine of the batch has sent and its result was received.
C27_BatchesApart ==
    (test = "RemoveObject" /\ ret # "false") =>
       /\ (mpc = "dispatch" /\ idx = 0) => (ch = <<>> /\ tasks = <<>>)
       /\ mpc = "dispatch" => Len(ch) = Cardinality(SentOfBatch)
       /\ mpc = "await" =>
            /\ Len(ch) + received = Cardinality(SentOfBatch)
            /\ count + received = Len(tasks)
       /\ (mpc = "await" /\ count = 0) =>
            /\ ch = <<>>
            /\ \A k \in DOMAIN tasks : tasks[k].pc = "done" /\ tasks[k].sent = 1

\* The second bucket is about to be dispatched, after the three batches of the first.
C27_Witness ==
    /\ test = "RemoveObject"
    /\ batch = [bucket |-> 2, list |-> 1]
    /\ mpc = "dispatch" /\ idx = 0
    /\ ch = <<>>
    /\ received = 1
    /\ Len(recvLog) = NumObjects + NumCopyObjects + 1

-----------------------------------------------------------------------------
(* The test cases under a fair scheduler and an executor that returns. *)

\* The steps of the goroutine of the test function.
MainStep ==
    \/ Dispatch
    \/ StartAwait
    \/ AwaitErrCh
    \/ mainUploadPartAwait
    \/ LoopDone

\* The steps of goroutine k: its requests, each with a call of the executor that
\* returns, and its send.
TaskStep(k) ==
    \/ mainPutObjectTask(k)
    \/ mainUploadPartTask(k)
    \/ mainGetObjectIfNoneMatchTask(k)
    \/ mainGetObjectIfNoneMatchBadTask(k)
    \/ mainGetObjectIfModifiedSinceTask(k)
    \/ mainGetObjectIfModifiedSinceGoodTask(k)
    \/ mainGetObjectRangeTask(k)
    \/ mainRemoveObjectExistsTask(k)
    \/ TaskSend(k)

\* The Go scheduler runs every goroutine that can run.
Fairness ==
    /\ WF_vars(MainStep)
    /\ \A k \in 1..Max(NumObjects, MaxMultipartObjects) : WF_vars(TaskStep(k))

SpecFair == Spec /\ Fairness

\* C28: with every call of the executor returning and a fair scheduler, every
\* test case that fans out reports in the end.
C28_EventuallyReports == FanOut => <>Returned

-----------------------------------------------------------------------------
(* The slots of complMultipartUploads. *)

\* C29: in mainUploadPart the index of every result received is an index of
\* complMultipartUploads, whatever the number of multipart objects: the receive
\* loop never appends to a slot that is not there.
C29_IndexIsASlot ==
    test = "UploadPart" => mpc # "panic"

-----------------------------------------------------------------------------
(* The second request of the tests of two requests. *)

\* The verifier of the first request of the running test case accepts res.
FirstAccepts(res) ==
    CASE test = "GetObjectIfNoneMatch" ->
           getObjectIfNoneMatchVerify(res, <<>>, 304) = ""
      [] test = "GetObjectIfModifiedSince" ->
           verifyGetObjectIfModifiedSince(res, <<>>, 304) = ""
      [] test = "GetObjectIfMatch" ->
           \E buf \in Payloads : GetObjectIfMatchVerify(res, buf, "200 OK", FALSE) = ""
      [] OTHER -> FALSE

\* C30: in mainGetObjectIfNoneMatch, mainGetObjectIfModifiedSince and
\* mainGetObjectIfMatch the second request is built and executed only after the
\* verifier accepted the first response: a task that is to make, or has made,
\* its second request holds a first response its verifier accepts, and a task
\* whose first request failed has made one request at most.
C30_SecondAfterFirstVerified ==
    /\ test \in {"GetObjectIfNoneMatch", "GetObjectIfModifiedSince"} =>
         \A k \in DOMAIN tasks :
            /\ (tasks[k].pc = "second" \/ Len(tasks[k].reqs) = 2) =>
                  /\ Len(tasks[k].got) >= 1
                  /\ FirstAccepts(tasks[k].got[1])
            /\ (tasks[k].pc = "send" /\ tasks[k].got = <<>>) =>
                  /\ tasks[k].msg # Nil
                  /\ Len(tasks[k].reqs) <= 1
    /\ test = "GetObjectIfMatch" =>
         /\ (mpc = "badProbe" \/ ifm.badReq # 0) =>
               /\ Len(ifm.got) >= 1
               /\ FirstAccepts(ifm.got[1])
               /\ ifm.req # 0
         /\ (mpc = "returned" /\ ifm.got = <<>>) =>
               /\ ifm.returned # Nil
               /\ ifm.badReq = 0

\* A goroutine has made its second request after its first response was
\* accepted, and another has sent the error of its first request.
C30_Witness ==
    /\ test = "GetObjectIfModifiedSince"
    /\ \E k \in DOMAIN tasks :
         /\ tasks[k].pc = "send"
         /\ Len(tasks[k].reqs) = 2
         /\ tasks[k].msg = Nil
    /\ \E k \in DOMAIN tasks :
         /\ tasks[k].pc = "send"
         /\ tasks[k].msg = Err("verify", k)
         /\ Len(tasks[k].reqs) = 1

-----------------------------------------------------------------------------
(* The registries of mainUploadPart and the results it received. *)

\* The goroutines whose result the receive loop has received: they have sent it
\* and it is not in the channel.
ReceivedFrom ==
    {k \in DOMAIN tasks :
        /\ tasks[k].pc = "done"
        /\ \A j \in DOMAIN ch : ch[j].index # tasks[k].cur}

\* The goroutines whose result carried no error: those that read an ETag header.
Uploaded == {k \in DOMAIN tasks : tasks[k].etag # <<>>}

\* The results received without error, by the log of the receive loop.
NilReceived == Cardinality({j \in DOMAIN recvLog : recvLog[j] = Nil})

\* C31: mainUploadPart appends to objectParts and to complMultipartUploads for
\* the results without error only; when it returns false the registries hold the
\* parts of the results received before the first error, and nothing of the
\* failing result nor of a result not received; when it returns true objectParts
\* has one entry for each of the M multipart objects and the Parts of each of
\* their slots of complMultipartUploads have one entry.
C31_PartsOfResultsWithoutError ==
    test = "UploadPart" =>
       /\ received = Cardinality(ReceivedFrom)
       /\ Len(objectParts) = Cardinality(ReceivedFrom \cap Uploaded)
       /\ Len(objectParts) = NilReceived
       /\ \A j \in DOMAIN objectParts :
            \E k \in ReceivedFrom \cap Uploaded : objectParts[j].ETag = StoredETag(k)
       /\ \A i \in DOMAIN complMultipartUploads :
            Len(complMultipartUploads[i].Parts) =
               IF i \in ReceivedFrom \cap Uploaded THEN 1 ELSE 0
       /\ ret = "false" =>
            /\ recvLog[Len(recvLog)] # Nil
            /\ \A j \in 1..(Len(recvLog) - 1) : recvLog[j] = Nil
            /\ Len(objectParts) = received - 1
       /\ ret = "true" =>
            /\ Len(objectParts) = Len(multipartObjects)
            /\ \A i \in DOMAIN multipartObjects : Len(complMultipartUploads[i].Parts) = 1

\* mainUploadPart returned false at its second result, with the part of the
\* first in the registries and a result without error left in the channel.
C31_Witness ==
    /\ test = "UploadPart" /\ ret = "false"
    /\ received = 2
    /\ Len(objectParts) = 1
    /\ \E i \in DOMAIN complMultipartUploads : Len(complMultipartUploads[i].Parts) = 1
    /\ \E j \in DOMAIN ch : ch[j].err = Nil

-----------------------------------------------------------------------------
(* The objects of mainPutObject. *)

\* A goroutine of mainPutObject about to send nil has stored, in the slot of its
\* index, the object of the key and of the payload of its PUT request; and when
\* mainPutObject has returned true the object of slot i has the key
\* "s3verify-put-parallel" followed by the decimal form of i, slots counted from 0.
C32_StoredAsSent ==
    test = "PutObject" =>
       /\ \A k \in DOMAIN tasks :
            Succeeded(k) =>
               LET i == tasks[k].cur + 1 IN
               /\ Len(tasks[k].reqs) = 1
               /\ objects[i] # Nil
               /\ objects[i].Key = <<"s3verify-put-parallel", tasks[k].cur>>
               /\ tasks[k].reqs[1].objectName = objects[i].Key
               /\ tasks[k].reqs[1].contentBody = objects[i].Body
               /\ tasks[k].reqs[1].contentLength = Len(objects[i].Body)
       /\ ret = "true" =>
            /\ \A i \in DOMAIN objects :
                 objects[i] # Nil /\ objects[i].Key = <<"s3verify-put-parallel", i - 1>>
            /\ \A i, j \in DOMAIN objects : i # j => objects[i].Key # objects[j].Key

\* An object that is stored stays as it is.
C32_StoredStays ==
    test = "PutObject" =>
       \A i \in DOMAIN objects : objects[i] # Nil => objects'[i] = objects[i]

\* C32: after mainPutObject returned true, objects[i] has the key
\* "s3verify-put-parallel" followed by the decimal form of i and the body that
\* the task of index i sent in its PUT request, in whatever order the tasks
\* completed; the keys of different slots differ.
C32_KeyAndBodyByIndex == []C32_StoredAsSent /\ [][C32_StoredStays]_vars

\* mainPutObject returned true with objects of different payloads.
C32_Witness ==
    /\ test = "PutObject" /\ ret = "true"
    /\ objects[1].Body = <<2, 1, 2>>
    /\ objects[2].Body = <<1, 2>>
    /\ objects[1].Key # objects[2].Key

====
